---- MODULE Spec2Model ----
(***************************************************************************)
(* Model of the persistent map (PMap) of pmap.go: a log of records in a    *)
(* store, indexed by an open-addressed hash table, with a running XOR      *)
(* checksum.  Byte strings are sequences of 0..255; 32 and 64 bit words    *)
(* are kept as their little-endian byte sequences, as                      *)
(* binary.LittleEndian reads them from a value.                            *)
(***************************************************************************)
EXTENDS Integers, Sequences, FiniteSets, TLC

(***************************************************************************)
(* Bounds of the model.                                                    *)
(***************************************************************************)
\* a run appends at most this many records to the log
MaxRecords == 3
\* New(path, size) of a store that never fills within MaxRecords records
StoreSize == 4096
\* New(path, size) of a store that holds two 22 byte frames and no third
SmallStoreSize == 50
\* number of operations of one replica in the order-invariance runs
NumOrderOps == 3
MaxProbeRecords == 40
MaxOtherRecords == 2

(***************************************************************************)
(* Words as little-endian byte sequences.                                  *)
(***************************************************************************)
RECURSIVE XorNat(_, _)
XorNat(a, b) ==
  IF a = 0 THEN b
  ELSE IF b = 0 THEN a
  ELSE ((a + b) % 2) + 2 * XorNat(a \div 2, b \div 2)

\* x ^ y on words of equal width
XorW(x, y) == [i \in 1..Len(x) |-> XorNat(x[i], y[i])]

RECURSIVE AddW(_, _, _)
\* x + y + carry, wrapping at the width of x
AddW(x, y, carry) ==
  IF x = <<>> THEN <<>>
  ELSE LET s == Head(x) + Head(y) + carry
       IN <<s % 256>> \o AddW(Tail(x), Tail(y), s \div 256)

RECURSIVE MulByteW(_, _, _)
\* x * m + carry for a byte m, wrapping at the width of x
MulByteW(x, m, carry) ==
  IF x = <<>> THEN <<>>
  ELSE LET p == Head(x) * m + carry
       IN <<p % 256>> \o MulByteW(Tail(x), m, p \div 256)

ZeroW(n) == [i \in 1..n |-> 0]

RECURSIVE MulW(_, _)
\* x * y, wrapping at the width of x
MulW(x, y) ==
  IF y = <<>> \/ x = <<>> THEN ZeroW(Len(x))
  ELSE AddW(MulByteW(x, Head(y), 0),
            <<0>> \o MulW(SubSeq(x, 1, Len(x) - 1), Tail(y)),
            0)

RECURSIVE LEW(_, _)
\* the n byte little-endian encoding of a small natural
LEW(n, v) == IF n = 0 THEN <<>> ELSE <<v % 256>> \o LEW(n - 1, v \div 256)

\* uint32(h64)
U32(h64) == SubSeq(h64, 1, 4)

RECURSIVE ULessW(_, _)
\* unsigned x < y, most significant byte last
ULessW(x, y) ==
  IF x = <<>> THEN FALSE
  ELSE LET n == Len(x)
       IN IF x[n] # y[n] THEN x[n] < y[n]
          ELSE ULessW(SubSeq(x, 1, n - 1), SubSeq(y, 1, n - 1))

\* int64(x) < int64(y): the order of time.Unix(0, int64(x))
TimeBefore(x, y) ==
  LET nx == x[8] >= 128
      ny == y[8] >= 128
  IN IF nx # ny THEN nx ELSE ULessW(x, y)

(***************************************************************************)
(* hashing.FNV1a64                                                         *)
(***************************************************************************)
offset64 == <<37, 35, 34, 132, 228, 156, 242, 203>>
prime64 == <<179, 1, 0, 0, 0, 1, 0, 0>>

RECURSIVE FNVLoop(_, _)
FNVLoop(h, b) ==
  IF b = <<>> THEN h
  ELSE FNVLoop(MulW([h EXCEPT ![1] = XorNat(@, Head(b))], prime64), Tail(b))

\* the hashes of the byte strings the model hashes most, computed once
FNVKnown ==
  [b \in {<<>>, <<88>>, <<89>>, <<97>>, <<105>>} |-> FNVLoop(offset64, b)]

FNV1a64(b) == IF b \in DOMAIN FNVKnown THEN FNVKnown[b] ELSE FNVLoop(offset64, b)

(***************************************************************************)
(* store: the log of records.  A record is kept as its offset, key and     *)
(* value; its frame is keyLen|valLen|totalLen|key|value, 12 bytes of       *)
(* header.  A value of length 0 is a tombstone.                            *)
(***************************************************************************)
headerSize == 12

frameLen(key, value) == headerSize + Len(key) + Len(value)

newStore(size) == [log |-> <<>>, length |-> 0, deleted |-> 0, size |-> size]

\* the mapping of an existing file: the records stay, the counters restart
openStore(log, size) == [log |-> log, length |-> 0, deleted |-> 0, size |-> size]

\* position in the log of the record that starts at offset index
recNo(st, index) == CHOOSE i \in 1..Len(st.log) : st.log[i].off = index

key(st, index) == st.log[recNo(st, index)].key

val(st, index) == st.log[recNo(st, index)].val

totalLen(st, index) == Len(key(st, index)) + Len(val(st, index))

\* offset of the record before offset index, -1 when there is none
prev(st, index) ==
  LET before == {i \in 1..Len(st.log) : st.log[i].off < index}
  IN IF before = {} THEN -1
     ELSE st.log[CHOOSE i \in before : \A j \in before : j <= i].off

\* value[0:8] of the view val(index): the first 8 bytes of the value; for a
\* tombstone the view is empty and the 8 bytes are those that follow it in
\* the mapping, the keyLen and valLen of the next frame or zeroes
valHeader(st, index) ==
  LET n == recNo(st, index)
      v == st.log[n].val
  IN IF Len(v) >= 8 THEN SubSeq(v, 1, 8)
     ELSE IF n < Len(st.log)
          THEN LEW(4, Len(st.log[n + 1].key)) \o LEW(4, Len(st.log[n + 1].val))
          ELSE ZeroW(8)

put(st, k, value) ==
  IF st.length + frameLen(k, value) > st.size
  THEN [st |-> st, index |-> 0, err |-> "StoreFull"]
  ELSE [st |-> [st EXCEPT !.log = Append(@, [off |-> st.length, key |-> k, val |-> value]),
                          !.length = @ + frameLen(k, value)],
        index |-> st.length, err |-> "nil"]

(***************************************************************************)
(* hashmap: open addressing with linear probing over buckets               *)
(* (hash32, storeIndex32); the table holds 2^sizeLog2 buckets.             *)
(***************************************************************************)
emptyBucket == <<255, 255, 255, 255>>
deletedBucket == <<254, 255, 255, 255>>

defaultHashMapInitialLog2Size == 1
defaultHashMapSizeLimit == 4

hashReMap(h) ==
  IF h = emptyBucket \/ h = deletedBucket THEN AddW(h, LEW(4, 2), 0) ELSE h

hmSize(hm) == 2 ^ hm.sizeLog2

\* h & sizeMask; the table never exceeds 256 buckets here
maskIndex(hm, h) == h[1] % hmSize(hm)

numKeysToExpand(hm) == (3 * hmSize(hm)) \div 4

newHashMap(log2size) ==
  [sizeLog2 |-> log2size, numStoredKeys |-> 0,
   table |-> [i \in 0..(2 ^ log2size - 1) |-> [hash |-> emptyBucket, storeIndex |-> 0]]]

getHash(hm, index) == hm.table[index].hash

getStoreIndex(hm, index) == hm.table[index].storeIndex

setHash(hm, index, h) == [hm EXCEPT !.table[index].hash = h]

setStoreIndex(hm, index, si) == [hm EXCEPT !.table[index].storeIndex = si]

RECURSIVE freeSlot(_, _)
\* first empty bucket at or after index
freeSlot(hm, index) ==
  IF getHash(hm, index) = emptyBucket THEN index
  ELSE freeSlot(hm, (index + 1) % hmSize(hm))

RECURSIVE reinsert(_, _, _)
\* copy the occupied buckets i.. of old into new
reinsert(new, old, i) ==
  IF i >= hmSize(old) THEN new
  ELSE LET h == getHash(old, i)
       IN IF h = emptyBucket \/ h = deletedBucket THEN reinsert(new, old, i + 1)
          ELSE LET j == freeSlot(new, maskIndex(new, h))
               IN reinsert([new EXCEPT !.table[j] = old.table[i],
                                       !.numStoredKeys = @ + 1], old, i + 1)

expand(hm) ==
  IF hm.sizeLog2 >= defaultHashMapSizeLimit
  THEN [hm |-> hm, err |-> "TableTooLarge"]
  ELSE [hm |-> reinsert(newHashMap(hm.sizeLog2 + 1), hm, 0), err |-> "nil"]

\* (a check for available space that never expands the table)
checkSpaceNever(hm) == [hm |-> hm, err |-> "nil"]

\* the "check for available space" that opens Set, CAS and restorePair
checkSpace(hm) ==
  IF hm.numStoredKeys >= numKeysToExpand(hm) THEN expand(hm)
  ELSE [hm |-> hm, err |-> "nil"]

(***************************************************************************)
(* syncChecksum: a XOR aggregate; the time argument is ignored.            *)
(***************************************************************************)
sum(ck, x) == XorW(ck, x)

sub(ck, x) == XorW(ck, x)

(***************************************************************************)
(* PMap: c = [hm, st, checksum].  A primitive returns the PMap it leaves   *)
(* and its error ("nil" for success, "spin" when its probing loop finds no *)
(* empty bucket and never returns).                                        *)
(***************************************************************************)
New(size) ==
  [hm |-> newHashMap(defaultHashMapInitialLog2Size), st |-> newStore(size),
   checksum |-> ZeroW(8)]

RECURSIVE probe(_, _, _, _, _)
\* the probing loop of Get, Set, CAS, Del and restorePair, started at index:
\* it ends on an empty bucket or on a bucket with hash h whose record has key k
probe(c, h, k, index, n) ==
  LET storedHash == getHash(c.hm, index)
  IN IF n >= hmSize(c.hm) THEN [kind |-> "spin", index |-> index]
     ELSE IF storedHash = emptyBucket THEN [kind |-> "empty", index |-> index]
     ELSE IF h = storedHash /\ key(c.st, getStoreIndex(c.hm, index)) = k
          THEN [kind |-> "match", index |-> index]
     ELSE probe(c, h, k, (index + 1) % hmSize(c.hm), n + 1)

NilValue == [nil |-> TRUE, v |-> <<>>]

Checksum(c) == c.checksum

Deleted(c) == c.st.deleted

Used(c) == c.st.length

\* (a Set that replaces the stored pair whatever its own timestamp)
setDiscardsNothing(oldT, t) == FALSE

\* (a Set that lets a pair of the stored timestamp through)
setDiscardsOlderOnly(oldT, t) == TimeBefore(t, oldT)

\* Set keeps the stored pair: oldT.After(t) || oldT.Equal(t)
setDiscards(oldT, t) == TimeBefore(t, oldT) \/ oldT = t

\* (a Del that removes the stored pair whatever its own timestamp)
delDiscardsNothing(oldT, t) == FALSE

\* (a Del that also keeps a pair of its own timestamp)
delDiscardsTies(oldT, t) == TimeBefore(t, oldT) \/ t = oldT

\* Del keeps the stored pair: t.Before(oldT)
delDiscards(oldT, t) == TimeBefore(t, oldT)

\* the two tests of CAS on a stored value v
casTimeMatches(oldT, providedTime) == oldT = providedTime

\* (a CAS that hashes the stored value with its timestamp header)
casHashMatchesWhole(hv, v) == hv = FNV1a64(v)

casHashMatches(hv, v) == hv = FNV1a64(SubSeq(v, 9, Len(v)))

\* (a checksum that keeps the term of a pair that left the live set)
dropNothing(ck, h64, oldT) == ck

\* the checksum after the stored pair of timestamp oldT left the live set
dropTerm(ck, h64, oldT) == sub(ck, XorW(h64, oldT))

\* (a short value that is dropped without an error)
errSwallowed == "nil"

\* the error Set and CAS return for a value shorter than they need
errValueTooShort == "ValueTooShort"

Get(c, h32, k) ==
  LET h == h32
      p == probe(c, h, k, maskIndex(c.hm, h), 0)
  IN IF p.kind = "match"
     THEN [nil |-> FALSE, v |-> val(c.st, getStoreIndex(c.hm, p.index))]
     ELSE NilValue

Set(c, h64, k, value) ==
  IF Len(value) < 8 THEN [c |-> c, err |-> errValueTooShort]
  ELSE
  LET sp == checkSpace(c.hm)
      c1 == [c EXCEPT !.hm = sp.hm]
      h == hashReMap(U32(h64))
      p == probe(c1, h, k, maskIndex(c1.hm, h), 0)
      w == put(c1.st, k, value)
      t == SubSeq(value, 1, 8)
  IN IF sp.err # "nil" THEN [c |-> c, err |-> sp.err]
     ELSE IF p.kind = "spin" THEN [c |-> c1, err |-> "spin"]
     ELSE IF p.kind = "empty"
     THEN IF w.err # "nil" THEN [c |-> c1, err |-> w.err]
          ELSE [c |-> [hm |-> [setStoreIndex(setHash(c1.hm, p.index, h), p.index, w.index)
                                 EXCEPT !.numStoredKeys = @ + 1],
                       st |-> w.st,
                       checksum |-> sum(c1.checksum, XorW(h64, t))],
                err |-> "nil"]
     ELSE LET stIndex == getStoreIndex(c1.hm, p.index)
              v == val(c1.st, stIndex)
              oldT == SubSeq(v, 1, 8)
          IN IF setDiscards(oldT, t) THEN [c |-> c1, err |-> "nil"]
             ELSE IF w.err # "nil" THEN [c |-> c1, err |-> w.err]
             ELSE [c |-> [hm |-> setStoreIndex(setHash(c1.hm, p.index, h), p.index, w.index),
                          st |-> w.st,
                          checksum |-> sum(dropTerm(c1.checksum, h64, oldT), XorW(h64, t))],
                   err |-> "nil"]

\* (a CAS that stores its whole argument, expectation included)
casNewValueWhole(value) == value

\* the value a CAS stores: value[16:]
casNewValue(value) == SubSeq(value, 17, Len(value))

CAS(c, h64, k, value) ==
  IF Len(value) < 24 THEN [c |-> c, err |-> errValueTooShort]
  ELSE
  LET sp == checkSpace(c.hm)
      c1 == [c EXCEPT !.hm = sp.hm]
      providedTime == SubSeq(value, 1, 8)
      hv == SubSeq(value, 9, 16)
      t == SubSeq(value, 17, 24)
      newValue == casNewValue(value)
      h == hashReMap(U32(h64))
      p == probe(c1, h, k, maskIndex(c1.hm, h), 0)
      w == put(c1.st, k, newValue)
  IN IF sp.err # "nil" THEN [c |-> c, err |-> sp.err]
     ELSE IF p.kind = "spin" THEN [c |-> c1, err |-> "spin"]
     ELSE IF p.kind = "empty"
     THEN IF providedTime # ZeroW(8) /\ hv # FNV1a64(<<>>)
          THEN [c |-> c1, err |-> "CASMismatch"]
          ELSE IF w.err # "nil" THEN [c |-> c1, err |-> w.err]
          ELSE [c |-> [hm |-> [setStoreIndex(setHash(c1.hm, p.index, h), p.index, w.index)
                                 EXCEPT !.numStoredKeys = @ + 1],
                       st |-> w.st,
                       checksum |-> sum(c1.checksum, XorW(h64, t))],
                err |-> "nil"]
     ELSE LET stIndex == getStoreIndex(c1.hm, p.index)
              v == val(c1.st, stIndex)
              oldT == SubSeq(v, 1, 8)
              ck == dropTerm(c1.checksum, h64, oldT)
          IN IF ~casTimeMatches(oldT, providedTime) THEN [c |-> c1, err |-> "CASMismatch"]
             ELSE IF ~casHashMatches(hv, v)
             THEN [c |-> c1, err |-> "CASMismatch"]
             ELSE IF w.err # "nil"
             THEN [c |-> [c1 EXCEPT !.checksum = ck], err |-> w.err]
             ELSE [c |-> [hm |-> setStoreIndex(setHash(c1.hm, p.index, h), p.index, w.index),
                          st |-> w.st,
                          checksum |-> sum(ck, XorW(h64, t))],
                   err |-> "nil"]

\* (a Del that leaves the hash of the key in its bucket)
delBucketHashKept(h) == h

\* the hash Del writes into the bucket of the key it removes
delBucketHash(h) == deletedBucket

Del(c, h64, k, value) ==
  LET h == hashReMap(U32(h64))
      p == probe(c, h, k, maskIndex(c.hm, h), 0)
  IN IF p.kind = "spin" THEN [c |-> c, err |-> "spin"]
     ELSE IF p.kind = "empty" THEN [c |-> c, err |-> "nil"]
     ELSE LET stIndex == getStoreIndex(c.hm, p.index)
              v == val(c.st, stIndex)
              oldT == SubSeq(v, 1, 8)
              t == SubSeq(value, 1, 8)
              st1 == [c.st EXCEPT !.deleted = @ + frameLen(k, v)]
              w == put(st1, k, <<>>)
          IN IF delDiscards(oldT, t) THEN [c |-> c, err |-> "nil"]
             ELSE [c |-> [hm |-> setHash(c.hm, p.index, delBucketHash(h)),
                          st |-> w.st,
                          checksum |-> dropTerm(c.checksum, h64, oldT)],
                   err |-> w.err]

\* keyLen(index): 0 where the mapping holds no record
keyLen(st, index) ==
  IF \E i \in 1..Len(st.log) : st.log[i].off = index THEN Len(key(st, index)) ELSE 0

restorePair(c, k, storeIndex) ==
  LET value == val(c.st, storeIndex)
      sp == checkSpace(c.hm)
      c1 == [c EXCEPT !.hm = sp.hm]
      h64 == FNV1a64(k)
      h == hashReMap(U32(h64))
      p == probe(c1, h, k, maskIndex(c1.hm, h), 0)
  IN IF sp.err # "nil" THEN [c |-> c, err |-> sp.err]
     ELSE IF p.kind = "spin" THEN [c |-> c1, err |-> "spin"]
     ELSE IF p.kind = "empty"
     THEN [c |-> [c1 EXCEPT !.hm = [setStoreIndex(setHash(c1.hm, p.index, h), p.index, storeIndex)
                                      EXCEPT !.numStoredKeys = @ + 1],
                            !.checksum = sum(@, XorW(h64, valHeader(c1.st, storeIndex)))],
           err |-> "nil"]
     ELSE LET stIndex == getStoreIndex(c1.hm, p.index)
              v == val(c1.st, stIndex)
              ck == sub(c1.checksum, XorW(h64, valHeader(c1.st, stIndex)))
              st1 == [c1.st EXCEPT !.deleted = @ + frameLen(k, v)]
          IN IF Len(value) > 0
             THEN [c |-> [hm |-> setStoreIndex(setHash(c1.hm, p.index, h), p.index, storeIndex),
                          st |-> st1,
                          checksum |-> sum(ck, XorW(h64, valHeader(c1.st, storeIndex)))],
                   err |-> "nil"]
             ELSE [c |-> [hm |-> setHash(c1.hm, p.index, deletedBucket),
                          st |-> st1, checksum |-> ck],
                   err |-> "nil"]

RECURSIVE openLoop(_, _)
\* the loop of Open from offset index on
openLoop(c, index) ==
  IF keyLen(c.st, index) <= 0 THEN c
  ELSE LET k == key(c.st, index)
           value == val(c.st, index)
           c1 == restorePair(c, k, index).c
           c2 == IF Len(value) > 0 THEN c1
                 ELSE [c1 EXCEPT !.st.deleted = @ + headerSize + Len(k)]
           next == index + headerSize + totalLen(c.st, index)
       IN openLoop([c2 EXCEPT !.st.length = next], next)

\* Open(path) of the file that holds log, of size bytes
Open(log, size) ==
  openLoop([hm |-> newHashMap(defaultHashMapInitialLog2Size),
            st |-> openStore(log, size), checksum |-> ZeroW(8)], 0)

\* Close() followed by Open(path)
Reopen(c) == Open(c.st.log, c.st.size)

isPresent(c, index) ==
  LET k == key(c.st, index)
      h32 == U32(FNV1a64(k))
      value == Get(c, h32, k)
  IN IF value.nil THEN FALSE
     ELSE SubSeq(value.v, 1, 8) = valHeader(c.st, index)

RECURSIVE iterateFrom(_, _)
iterateFrom(c, index) ==
  IF index >= c.st.length THEN <<>>
  ELSE (IF isPresent(c, index) THEN <<[key |-> key(c.st, index), val |-> val(c.st, index)]>>
        ELSE <<>>)
       \o iterateFrom(c, index + headerSize + totalLen(c.st, index))

\* the pairs Iterate hands to a callback that always returns true, in order
Iterate(c) == iterateFrom(c, 0)

RECURSIVE backwardsFrom(_, _)
backwardsFrom(c, index) ==
  (IF isPresent(c, index) THEN <<[key |-> key(c.st, index), val |-> val(c.st, index)]>>
   ELSE <<>>)
  \o (IF prev(c.st, index) < 0 THEN <<>> ELSE backwardsFrom(c, prev(c.st, index)))

\* the pairs BackwardsIterate hands to a callback that always returns true
BackwardsIterate(c) ==
  IF c.st.length <= 0 THEN <<>> ELSE backwardsFrom(c, prev(c.st, c.st.length))

\* (a loop that goes on after its callback returned false)
callbackNeverStops(n) == FALSE

\* the callback foreach returns false at its n-th call from here (never, when
\* n is 0): !ok at the call made now
callbackStops(n) == n = 1

RECURSIVE iterateCalls(_, _, _)
\* the offsets of the records Iterate hands to foreach, from offset index on
iterateCalls(c, index, n) ==
  IF index >= c.st.length THEN <<>>
  ELSE LET next == index + headerSize + totalLen(c.st, index)
       IN IF isPresent(c, index)
          THEN IF callbackStops(n) THEN <<index>>
               ELSE <<index>> \o iterateCalls(c, next, n - 1)
          ELSE iterateCalls(c, next, n)

RECURSIVE backwardsCallsFrom(_, _, _)
backwardsCallsFrom(c, index, n) ==
  LET rest(m) == IF prev(c.st, index) < 0 THEN <<>>
                 ELSE backwardsCallsFrom(c, prev(c.st, index), m)
  IN IF isPresent(c, index)
     THEN IF callbackStops(n) THEN <<index>> ELSE <<index>> \o rest(n - 1)
     ELSE rest(n)

\* the offsets of the records BackwardsIterate hands to foreach
backwardsCalls(c, n) ==
  IF c.st.length <= 0 THEN <<>> ELSE backwardsCallsFrom(c, prev(c.st, c.st.length), n)

(***************************************************************************)
(* The inputs of the calls.                                                *)
(***************************************************************************)
\* "a" and "i": their FNV1a64 hashes agree in the low three bits
Keys == {<<97>>, <<105>>}
Payloads == {<<88>>, <<89>>}
Times == {0, 1}

ts(n) == LEW(8, n)

ShortValue == <<1, 2, 3>>
SetValues == {ts(n) \o p : n \in Times, p \in Payloads} \cup {ShortValue}
DelValues == {ts(n) : n \in Times}
ExpectedHashes == {FNV1a64(<<>>), FNV1a64(<<88>>)}
CASValues ==
  {ts(e) \o hv \o ts(n) \o p : e \in Times, hv \in ExpectedHashes, n \in Times, p \in Payloads}
  \cup {ts(0) \o FNV1a64(<<>>)}

\* the hash a caller passes for a key
FNVHash == [k \in Keys |-> FNV1a64(k)]
\* 64 bit values whose low 32 bits are emptyBucket and deletedBucket
SentinelHashes == {emptyBucket \o <<1, 0, 0, 0>>, deletedBucket \o <<2, 0, 0, 0>>}
CallerHashes == [Keys -> {FNV1a64(<<97>>)} \cup SentinelHashes]

\* the operations of the order-invariance runs: Set and Del with timestamp n
OrderTimes == {1, 2, 3}
OrderOps == [op : {"Set", "Del"}, key : Keys, n : OrderTimes]
\* the sets of operations in which no two on one key share a timestamp
OrderSets ==
  {S \in SUBSET OrderOps :
     /\ Cardinality(S) = NumOrderOps
     /\ \A x \in S, y \in S : (x.key = y.key /\ x.n = y.n) => x = y}

\* c: the PMap; hf: the hash the caller passes for each key; sets: for each
\* key, a record of the Set calls made on it (kept only in the runs of
\* SpecLWW); rep: two replicas and the operations each has still to apply
\* (used only in the runs of SpecOrder)
VARIABLES c, hf, sets, rep

vars == <<c, hf, sets, rep>>

NoSets == [k \in Keys |-> [only |-> TRUE, best |-> <<>>, tie |-> FALSE]]
Untracked == [on |-> FALSE, of |-> NoSets]
Tracked == [on |-> TRUE, of |-> NoSets]
NoRep == [todoA |-> {}, todoB |-> {}, cA |-> New(StoreSize), cB |-> New(StoreSize)]

InitWith(size, hashes, track) ==
  /\ c = New(size)
  /\ hf \in hashes
  /\ sets = track
  /\ rep = NoRep

Init == InitWith(StoreSize, {FNVHash}, Untracked)

InitAnyHash == InitWith(StoreSize, CallerHashes, Untracked)

InitFull == InitWith(SmallStoreSize, {FNVHash}, Untracked)

InitLWW == InitWith(StoreSize, {FNVHash}, Tracked)

InitOrder ==
  /\ c = New(StoreSize)
  /\ hf = FNVHash
  /\ sets = Untracked
  /\ \E S \in OrderSets : rep = [NoRep EXCEPT !.todoA = S, !.todoB = S]

\* a run stops once the log holds MaxRecords records
Room == Len(c.st.log) < MaxRecords

\* the first Set of the largest timestamp among the Sets of key k that
\* returned nil, and whether a later Set carried that timestamp too
noteSet(h, k, value, err) ==
  IF ~h.on \/ err # "nil" THEN h
  ELSE LET b == h.of[k].best
       IN IF b = <<>> \/ TimeBefore(SubSeq(b, 1, 8), SubSeq(value, 1, 8))
          THEN [h EXCEPT !.of[k].best = value, !.of[k].tie = FALSE]
          ELSE IF SubSeq(b, 1, 8) = SubSeq(value, 1, 8)
          THEN [h EXCEPT !.of[k].tie = TRUE]
          ELSE h

\* a Del or a CAS was called on key k
noteOther(h, k) == IF ~h.on THEN h ELSE [h EXCEPT !.of[k].only = FALSE]

DoSet(k, value) ==
  LET r == Set(c, hf[k], k, value)
  IN /\ Room
     /\ r.err # "spin"
     /\ c' = r.c
     /\ sets' = noteSet(sets, k, value, r.err)
     /\ UNCHANGED <<hf, rep>>

DoCAS(k, value) ==
  LET r == CAS(c, hf[k], k, value)
  IN /\ Room
     /\ r.err # "spin"
     /\ c' = r.c
     /\ sets' = noteOther(sets, k)
     /\ UNCHANGED <<hf, rep>>

DoDel(k, value) ==
  LET r == Del(c, hf[k], k, value)
  IN /\ Room
     /\ r.err # "spin"
     /\ c' = r.c
     /\ sets' = noteOther(sets, k)
     /\ UNCHANGED <<hf, rep>>

DoReopen ==
  /\ Room
  /\ c' = Reopen(c)
  /\ UNCHANGED <<hf, sets, rep>>

\* one operation of an order-invariance run, applied to a replica
applyOp(pm, x) ==
  IF x.op = "Set" THEN Set(pm, FNV1a64(x.key), x.key, ts(x.n) \o <<88>>).c
  ELSE Del(pm, FNV1a64(x.key), x.key, ts(x.n)).c

\* replica A applies one of its operations, in any order
StepA(x) ==
  /\ x \in rep.todoA
  /\ rep' = [rep EXCEPT !.todoA = @ \ {x}, !.cA = applyOp(@, x)]
  /\ UNCHANGED <<c, hf, sets>>

\* replica B applies one of its operations, in any order, once A is done
StepB(x) ==
  /\ rep.todoA = {}
  /\ x \in rep.todoB
  /\ rep' = [rep EXCEPT !.todoB = @ \ {x}, !.cB = applyOp(@, x)]
  /\ UNCHANGED <<c, hf, sets>>

Next ==
  \/ \E k \in Keys, value \in SetValues : DoSet(k, value)
  \/ \E k \in Keys, value \in CASValues : DoCAS(k, value)
  \/ \E k \in Keys, value \in DelValues : DoDel(k, value)
  \/ DoReopen

\* the CAS calls of the runs that record the Sets: those that expect
\* timestamp 0 and store timestamp 1 with payload "Y"
LWWCASValues ==
  {v \in CASValues :
     Len(v) >= 24 /\ SubSeq(v, 1, 8) = ZeroW(8) /\ SubSeq(v, 17, 25) = ts(1) \o <<89>>}

NextLWW ==
  \/ \E k \in Keys, value \in SetValues : DoSet(k, value)
  \/ \E k \in Keys, value \in LWWCASValues : DoCAS(k, value)
  \/ \E k \in Keys, value \in DelValues : DoDel(k, value)
  \/ DoReopen

NextOrder ==
  \/ \E x \in OrderOps : StepA(x)
  \/ \E x \in OrderOps : StepB(x)

Spec == Init /\ [][Next]_vars

SpecAnyHash == InitAnyHash /\ [][Next]_vars

SpecFull == InitFull /\ [][Next]_vars

SpecLWW == InitLWW /\ [][NextLWW]_vars

SpecOrder == InitOrder /\ [][NextOrder]_vars

\* the runs that fill the hash table: key "a" is set at timestamp 0 and
\* deleted at timestamp 1 over and over; the other key is set or deleted
\* only while the log holds fewer than MaxOtherRecords records
ProbeRoom(k) ==
  /\ Len(c.st.log) < MaxProbeRecords
  /\ k # <<97>> => Len(c.st.log) < MaxOtherRecords

ProbeSet(k) ==
  LET r == Set(c, hf[k], k, ts(0) \o <<88>>)
  IN /\ ProbeRoom(k)
     /\ r.err # "spin"
     /\ c' = r.c
     /\ UNCHANGED <<hf, sets, rep>>

ProbeDel(k) ==
  LET r == Del(c, hf[k], k, ts(1))
  IN /\ ProbeRoom(k)
     /\ r.err # "spin"
     /\ c' = r.c
     /\ UNCHANGED <<hf, sets, rep>>

ProbeReopen ==
  /\ c' = Reopen(c)
  /\ UNCHANGED <<hf, sets, rep>>

NextProbe ==
  \/ \E k \in Keys : ProbeSet(k)
  \/ \E k \in Keys : ProbeDel(k)
  \/ ProbeReopen

SpecProbe == Init /\ [][NextProbe]_vars

(***************************************************************************)
(* What the log says of a key, whatever the index holds: a key is live     *)
(* when its most recent record is not a tombstone.                         *)
(***************************************************************************)
recordsOf(pm, k) == {i \in 1..Len(pm.st.log) : pm.st.log[i].key = k}

lastOf(pm, k) == CHOOSE i \in recordsOf(pm, k) : \A j \in recordsOf(pm, k) : j <= i

Live(pm, k) == recordsOf(pm, k) # {} /\ pm.st.log[lastOf(pm, k)].val # <<>>

Current(pm, k) == pm.st.log[lastOf(pm, k)].val

Found(value) == [nil |-> FALSE, v |-> value]

\* Get as a caller whose hash of k is h64 calls it
GetBy(pm, h64, k) == Get(pm, U32(h64), k)

keysOf(pairs) == {pairs[i].key : i \in 1..Len(pairs)}

count(pairs, x) == Cardinality({i \in 1..Len(pairs) : pairs[i] = x})

sameBag(p, q) == \A x \in {p[i] : i \in 1..Len(p)} \cup {q[i] : i \in 1..Len(q)} :
                   count(p, x) = count(q, x)

(***************************************************************************)
(* C1                                                                      *)
(***************************************************************************)
\* C1: whatever 64 bit hash the caller passes for a key, a Set of a value of
\* at least 8 bytes whose timestamp is greater than the stored one (or whose
\* key is absent) that returns nil is followed by a Get of that value.
C1_GetAfterSet ==
  \A k \in Keys, value \in SetValues :
    LET r == Set(c, hf[k], k, value)
    IN (/\ Room
        /\ Len(value) >= 8
        /\ r.err = "nil"
        /\ (Live(c, k) => TimeBefore(SubSeq(Current(c, k), 1, 8), SubSeq(value, 1, 8))))
       => GetBy(r.c, hf[k], k) = Found(value)

(***************************************************************************)
(* C2                                                                      *)
(***************************************************************************)
\* C2: after Close and Open of the same file, Get returns the same for every
\* key, Checksum is the same and Iterate yields the same sequence of pairs.
C2_OpenRoundTrip ==
  LET o == Reopen(c)
  IN /\ \A k \in Keys : GetBy(o, FNV1a64(k), k) = GetBy(c, FNV1a64(k), k)
     /\ Checksum(o) = Checksum(c)
     /\ Iterate(o) = Iterate(c)

(***************************************************************************)
(* C3                                                                      *)
(***************************************************************************)
\* C3: two replicas that applied the same set of Set and Del operations, no
\* two on one key with the same timestamp, in two orders have equal checksums.
C3_ChecksumOrderInvariant ==
  (rep.todoA = {} /\ rep.todoB = {}) => Checksum(rep.cA) = Checksum(rep.cB)

(***************************************************************************)
(* C4                                                                      *)
(***************************************************************************)
\* C4: a key on which only Sets were called holds the value of the first Set
\* among those of the largest timestamp.
C4_LWWMonotone ==
  \A k \in Keys :
    (sets.on /\ sets.of[k].only /\ sets.of[k].best # <<>>)
    => GetBy(c, hf[k], k) = Found(sets.of[k].best)

\* a key that was set, overwritten by a later timestamp, and then set again
\* with that same timestamp
C4_Witness ==
  \E k \in Keys :
    /\ sets.on /\ sets.of[k].only /\ sets.of[k].tie
    /\ Cardinality(recordsOf(c, k)) = 2
    /\ GetBy(c, hf[k], k) = Found(sets.of[k].best)

(***************************************************************************)
(* C5                                                                      *)
(***************************************************************************)
\* C5: a CAS on a present key succeeds exactly when the stored timestamp is
\* the expected one and the FNV1a64 of the stored payload is the expected
\* hash, however the new timestamp compares with the stored one; after a
\* success Get returns the new timestamp and payload, after a failure the
\* previous value.
C5_CASOnPresent ==
  \A k \in Keys, value \in CASValues :
    (Room /\ Len(value) >= 24 /\ Live(c, k))
    => LET r == CAS(c, hf[k], k, value)
           old == Current(c, k)
           ok == /\ SubSeq(old, 1, 8) = SubSeq(value, 1, 8)
                 /\ FNV1a64(SubSeq(old, 9, Len(old))) = SubSeq(value, 9, 16)
       IN /\ (r.err = "nil") <=> ok
          /\ r.err = "nil" => GetBy(r.c, hf[k], k) = Found(SubSeq(value, 17, Len(value)))
          /\ r.err # "nil" => GetBy(r.c, hf[k], k) = Found(old)

\* the two most recent records of a key are values and the later one does not
\* carry a greater timestamp: a CAS replaced the earlier one
C5_Witness ==
  \E k \in Keys : \E i \in recordsOf(c, k) :
    LET j == lastOf(c, k)
    IN /\ i < j
       /\ \A m \in recordsOf(c, k) : m <= i \/ m = j
       /\ c.st.log[i].val # <<>> /\ c.st.log[j].val # <<>>
       /\ TimeBefore(SubSeq(c.st.log[j].val, 1, 8), SubSeq(c.st.log[i].val, 1, 8))
       /\ GetBy(c, hf[k], k) = Found(c.st.log[j].val)

(***************************************************************************)
(* C6                                                                      *)
(***************************************************************************)
\* C6: a CAS on an absent key succeeds only when the expected timestamp is 0
\* and the expected hash is FNV1a64(nil); otherwise it returns an error,
\* appends nothing and leaves the key absent.
C6_CASOnAbsent ==
  \A k \in Keys, value \in CASValues :
    (Room /\ Len(value) >= 24 /\ ~Live(c, k))
    => LET r == CAS(c, hf[k], k, value)
           expectsAbsent == /\ SubSeq(value, 1, 8) = ZeroW(8)
                            /\ SubSeq(value, 9, 16) = FNV1a64(<<>>)
       IN ~expectsAbsent
          => /\ r.err # "nil"
             /\ r.c.st.log = c.st.log
             /\ GetBy(r.c, hf[k], k) = NilValue

(***************************************************************************)
(* C7                                                                      *)
(***************************************************************************)
\* C7: a Del of a present key with a timestamp not before the stored one is
\* followed by a Get of nil, and neither iteration yields the key.
C7_TombstoneVisible ==
  \A k \in Keys, value \in DelValues :
    (Room /\ Live(c, k) /\ ~TimeBefore(SubSeq(value, 1, 8), SubSeq(Current(c, k), 1, 8)))
    => LET r == Del(c, hf[k], k, value)
       IN /\ GetBy(r.c, hf[k], k) = NilValue
          /\ k \notin keysOf(Iterate(r.c))
          /\ k \notin keysOf(BackwardsIterate(r.c))

\* the most recent record of a key is a tombstone that follows a value, and
\* the key is gone from Get and from the iterations
C7_Witness ==
  \E k \in Keys : \E i \in recordsOf(c, k) :
    LET j == lastOf(c, k)
    IN /\ i < j
       /\ c.st.log[i].val # <<>> /\ c.st.log[j].val = <<>>
       /\ GetBy(c, hf[k], k) = NilValue
       /\ k \notin keysOf(Iterate(c))
       /\ Iterate(c) # <<>>

(***************************************************************************)
(* C8                                                                      *)
(***************************************************************************)
\* C8: Iterate yields exactly one pair for each live key, the key with the
\* value Get returns for it, and nothing else; BackwardsIterate yields the
\* same pairs as often.
C8_IterateLiveSet ==
  LET it == Iterate(c)
  IN /\ \A k \in Keys :
          Cardinality({i \in 1..Len(it) : it[i].key = k}) = IF Live(c, k) THEN 1 ELSE 0
     /\ \A i \in 1..Len(it) : GetBy(c, hf[it[i].key], it[i].key) = Found(it[i].val)
     /\ sameBag(it, BackwardsIterate(c))

(***************************************************************************)
(* C9                                                                      *)
(***************************************************************************)
RECURSIVE xorOver(_, _)
\* the XOR of FNV1a64(k) ^ timestamp bits of the current record of each k in S
xorOver(pm, S) ==
  IF S = {} THEN ZeroW(8)
  ELSE LET k == CHOOSE x \in S : TRUE
       IN XorW(XorW(FNV1a64(k), SubSeq(Current(pm, k), 1, 8)), xorOver(pm, S \ {k}))

\* C9: the checksum is the XOR over the live keys of the key's hash XOR the
\* timestamp bits of its current record.
C9_ChecksumOfLiveSet ==
  Checksum(c) = xorOver(c, {k \in Keys : Live(c, k)})

\* one key is live after an overwrite or beside a deleted key
C9_Witness ==
  /\ Len(c.st.log) = MaxRecords
  /\ \E k \in Keys : Live(c, k) /\ Cardinality(recordsOf(c, k)) < MaxRecords
  /\ Checksum(c) # ZeroW(8)

(***************************************************************************)
(* C10                                                                     *)
(***************************************************************************)
\* the counters after a call that replaced the record of a present key
replaceCounts(pm, r, k, newValue) ==
  (r.err = "nil" /\ Len(r.c.st.log) > Len(pm.st.log))
  => /\ Deleted(r.c) = Deleted(pm) + frameLen(k, Current(pm, k))
     /\ Used(r.c) = Used(pm) + frameLen(k, newValue)

\* C10: a Set or CAS that replaces the record of a present key adds the
\* frame size of the old record to Deleted and that of the new one to Used.
C10_ShadowedBytes ==
  \A k \in Keys :
    (Room /\ Live(c, k))
    => /\ \A value \in SetValues :
            replaceCounts(c, Set(c, hf[k], k, value), k, value)
       /\ \A value \in CASValues :
            replaceCounts(c, CAS(c, hf[k], k, value), k, SubSeq(value, 17, Len(value)))

(***************************************************************************)
(* C11                                                                     *)
(***************************************************************************)
\* the call that returned r left what a caller of pm can observe as it was
unchangedBy(pm, r) ==
  /\ \A k \in Keys : GetBy(r.c, hf[k], k) = GetBy(pm, hf[k], k)
  /\ Checksum(r.c) = Checksum(pm)
  /\ Used(r.c) = Used(pm)
  /\ Deleted(r.c) = Deleted(pm)
  /\ r.c.st.log = pm.st.log

\* what the PMap holds for k, as the caller of k sees it
Stored(pm, k) == GetBy(pm, hf[k], k)

Present(pm, k) == ~Stored(pm, k).nil

\* the timestamp of value is not after the stored timestamp of k
notAfterStored(pm, k, value) ==
  ~TimeBefore(SubSeq(Stored(pm, k).v, 1, 8), SubSeq(value, 1, 8))

\* the timestamp of value is before the stored timestamp of k
beforeStored(pm, k, value) ==
  TimeBefore(SubSeq(value, 1, 8), SubSeq(Stored(pm, k).v, 1, 8))

\* C11: a Set whose timestamp is not after the stored one, a Del of an absent
\* key and a Del whose timestamp is before the stored one return nil, append
\* no record and leave every Get, Checksum, Used and Deleted as they were.
C11_DiscardedNoOp ==
  \A k \in Keys :
    /\ \A value \in SetValues :
         (Room /\ Len(value) >= 8 /\ Present(c, k) /\ notAfterStored(c, k, value))
         => LET r == Set(c, hf[k], k, value)
            IN r.err = "nil" /\ unchangedBy(c, r)
    /\ \A value \in DelValues :
         (Room /\ (~Present(c, k) \/ beforeStored(c, k, value)))
         => LET r == Del(c, hf[k], k, value)
            IN r.err = "nil" /\ unchangedBy(c, r)

\* one key holds a value of timestamp 1 and the other is absent: a Set and a
\* Del of timestamp 0 on the first and a Del on the second are all discarded
C11_Witness ==
  \E k \in Keys, d \in Keys :
    /\ Len(c.st.log) < MaxRecords
    /\ Present(c, k) /\ SubSeq(Stored(c, k).v, 1, 8) = ts(1)
    /\ ~Present(c, d)
    /\ Set(c, hf[k], k, ts(0) \o <<88>>).c.st.log = c.st.log
    /\ Set(c, hf[k], k, ts(1) \o <<89>>).c.st.log = c.st.log
    /\ Del(c, hf[k], k, ts(0)).c.st.log = c.st.log
    /\ Del(c, hf[d], d, ts(1)).c.st.log = c.st.log

(***************************************************************************)
(* C12                                                                     *)
(***************************************************************************)
\* value carries the stored timestamp of k
tiesStored(pm, k, value) == SubSeq(value, 1, 8) = SubSeq(Stored(pm, k).v, 1, 8)

\* C12 as stated: a Set or a Del of a present key that carries the timestamp
\* of the stored record leaves Get returning the stored value.
C12_TiesKeepExisting ==
  \A k \in Keys :
    (Room /\ Present(c, k))
    => /\ \A value \in SetValues :
            (Len(value) >= 8 /\ tiesStored(c, k, value))
            => GetBy(Set(c, hf[k], k, value).c, hf[k], k) = Stored(c, k)
       /\ \A value \in DelValues :
            tiesStored(c, k, value)
            => GetBy(Del(c, hf[k], k, value).c, hf[k], k) = Stored(c, k)

\* C12 amended: a Set of a present key that carries the timestamp of the
\* stored record leaves Get returning the stored value; a Del that carries
\* it is accepted, and Get returns nil afterwards.
C12_TiesSetKeepsDelRemoves ==
  \A k \in Keys :
    (Room /\ Present(c, k))
    => /\ \A value \in SetValues :
            (Len(value) >= 8 /\ tiesStored(c, k, value))
            => GetBy(Set(c, hf[k], k, value).c, hf[k], k) = Stored(c, k)
       /\ \A value \in DelValues :
            tiesStored(c, k, value)
            => GetBy(Del(c, hf[k], k, value).c, hf[k], k) = NilValue

\* a key holds payload "X" at timestamp 1: a Set of "Y" at timestamp 1 is
\* dropped and a Del at timestamp 1 removes the key
C12_Witness ==
  \E k \in Keys :
    /\ Len(c.st.log) < MaxRecords
    /\ Present(c, k) /\ Stored(c, k).v = ts(1) \o <<88>>
    /\ GetBy(Set(c, hf[k], k, ts(1) \o <<89>>).c, hf[k], k) = Found(ts(1) \o <<88>>)
    /\ GetBy(Del(c, hf[k], k, ts(1)).c, hf[k], k) = NilValue

(***************************************************************************)
(* C13                                                                     *)
(***************************************************************************)
RECURSIVE sumFrames(_)
\* the sum of 12 + keyLen + valLen over the records of a log
sumFrames(log) ==
  IF log = <<>> THEN 0
  ELSE frameLen(Head(log).key, Head(log).val) + sumFrames(Tail(log))

\* the call that returned r appended one record, k with value v
appendedOne(pm, r, k, v) ==
  /\ r.c.st.log = Append(pm.st.log, [off |-> Used(pm), key |-> k, val |-> v])
  /\ Used(r.c) = Used(pm) + 12 + Len(k) + Len(v)

appendedNone(pm, r) == r.c.st.log = pm.st.log /\ Used(r.c) = Used(pm)

\* C13: Used is the sum of 12 + keyLen + valLen over the records appended so
\* far and is the same after Close and Open; an accepted Set appends one
\* record with its value, a successful CAS one with value[16:], an accepted
\* Del of a present key one tombstone, and a discarded or failed call none.
C13_UsedAccounting ==
  /\ Used(c) = sumFrames(c.st.log)
  /\ Used(Reopen(c)) = Used(c)
  /\ Room =>
       \A k \in Keys :
         /\ \A value \in SetValues :
              LET r == Set(c, hf[k], k, value)
                  accepted == /\ Len(value) >= 8
                              /\ (~Present(c, k) \/ ~notAfterStored(c, k, value))
              IN IF r.err = "nil" /\ accepted THEN appendedOne(c, r, k, value)
                 ELSE appendedNone(c, r)
         /\ \A value \in CASValues :
              LET r == CAS(c, hf[k], k, value)
              IN IF r.err = "nil"
                 THEN appendedOne(c, r, k, SubSeq(value, 17, Len(value)))
                 ELSE appendedNone(c, r)
         /\ \A value \in DelValues :
              LET r == Del(c, hf[k], k, value)
                  accepted == Present(c, k) /\ ~beforeStored(c, k, value)
              IN IF r.err = "nil" /\ accepted THEN appendedOne(c, r, k, <<>>)
                 ELSE appendedNone(c, r)

\* the log holds a value written by Set, a value of a smaller timestamp
\* written over it by CAS, and the tombstone of a Del: 22 + 22 + 13 bytes,
\* before and after Close and Open
C13_Witness ==
  \E k \in Keys :
    /\ Len(c.st.log) >= 3
    /\ \A i \in 1..3 : c.st.log[i].key = k
    /\ c.st.log[1].val = ts(1) \o <<88>>
    /\ c.st.log[2].val = ts(0) \o <<89>>
    /\ c.st.log[3].val = <<>>
    /\ Len(c.st.log) = 3 => Used(c) = 57 /\ Used(Reopen(c)) = 57

(***************************************************************************)
(* C14                                                                     *)
(***************************************************************************)
\* values of 0, 3 and 7 bytes
ShortSetValues == {<<>>, ShortValue, SubSeq(ts(1), 1, 7)}

\* values of 0, 16 and 23 bytes; the last two expect what a key may hold
ShortCASValues ==
  {<<>>, ts(0) \o FNV1a64(<<>>), ts(0) \o FNV1a64(<<88>>) \o SubSeq(ts(1), 1, 7)}

\* C14: a Set of a value shorter than 8 bytes and a CAS of a value shorter
\* than 24 bytes return an error, append no record and leave every Get,
\* Checksum, Used and Deleted as they were.
C14_ShortValueRejected ==
  \A k \in Keys :
    /\ \A value \in ShortSetValues :
         LET r == Set(c, hf[k], k, value)
         IN r.err # "nil" /\ unchangedBy(c, r)
    /\ \A value \in ShortCASValues :
         LET r == CAS(c, hf[k], k, value)
         IN r.err # "nil" /\ unchangedBy(c, r)

\* a key holds payload "X" at timestamp 0 in a table due to expand, the other
\* key is absent, and the short calls on both are refused
C14_Witness ==
  \E k \in Keys, d \in Keys :
    /\ Stored(c, k) = Found(ts(0) \o <<88>>)
    /\ ~Present(c, d)
    /\ c.hm.numStoredKeys >= numKeysToExpand(c.hm)
    /\ Set(c, hf[k], k, SubSeq(ts(1), 1, 7)).err = "ValueTooShort"
    /\ CAS(c, hf[k], k, ts(0) \o FNV1a64(<<88>>) \o SubSeq(ts(1), 1, 7)).err = "ValueTooShort"
    /\ CAS(c, hf[d], d, ts(0) \o FNV1a64(<<>>)).err = "ValueTooShort"

(***************************************************************************)
(* C15                                                                     *)
(***************************************************************************)
bucketsWith(hm, h) == {i \in DOMAIN hm.table : getHash(hm, i) = h}

RECURSIVE openErrs(_, _)
\* the errors restorePair returns to the loop of Open from offset index on
openErrs(pm, index) ==
  IF keyLen(pm.st, index) <= 0 THEN {}
  ELSE LET r == restorePair(pm, key(pm.st, index), index)
           value == val(pm.st, index)
           c2 == IF Len(value) > 0 THEN r.c
                 ELSE [r.c EXCEPT !.st.deleted = @ + headerSize + Len(key(pm.st, index))]
           next == index + headerSize + totalLen(pm.st, index)
       IN {r.err} \cup openErrs([c2 EXCEPT !.st.length = next], next)

\* the probing loop of a call on k with 32 bit hash h ends
probeEnds(pm, h, k) == probe(pm, h, k, maskIndex(pm.hm, h), 0).kind # "spin"

\* C15: the hash table always holds an empty bucket, and the probing loops
\* of Get, Set, CAS, Del and of the restorePair calls of Open all end.
C15_ProbeTerminates ==
  /\ bucketsWith(c.hm, emptyBucket) # {}
  /\ \A k \in Keys :
       /\ \A h \in {U32(hf[k]), emptyBucket, deletedBucket} : probeEnds(c, h, k)
       /\ Set(c, hf[k], k, ts(0) \o <<88>>).err # "spin"
       /\ CAS(c, hf[k], k, ts(0) \o FNV1a64(<<>>) \o ts(0) \o <<88>>).err # "spin"
       /\ Del(c, hf[k], k, ts(1)).err # "spin"
  /\ "spin" \notin openErrs([hm |-> newHashMap(defaultHashMapInitialLog2Size),
                              st |-> openStore(c.st.log, c.st.size),
                              checksum |-> ZeroW(8)], 0)

\* the table has reached its size limit and refuses to grow, most of its
\* buckets are deleted ones left by the Dels, and some are still empty
C15_Witness ==
  /\ c.hm.sizeLog2 = defaultHashMapSizeLimit
  /\ Set(c, hf[<<97>>], <<97>>, ts(0) \o <<88>>).err = "TableTooLarge"
  /\ Cardinality(bucketsWith(c.hm, deletedBucket)) >= 2 ^ (defaultHashMapSizeLimit - 1)
  /\ bucketsWith(c.hm, emptyBucket) # {}

(***************************************************************************)
(* C16                                                                     *)
(***************************************************************************)
\* the buckets whose hash is no sentinel and whose record has key k
bucketsOf(pm, k) ==
  {i \in DOMAIN pm.hm.table :
     /\ getHash(pm.hm, i) \notin {emptyBucket, deletedBucket}
     /\ key(pm.st, getStoreIndex(pm.hm, i)) = k}

\* C16: at most one bucket with a hash that is no sentinel references a
\* record of key k; there is one exactly when k is live, and then its hash is
\* the remapped FNV1a64 of k and its offset that of the most recent record of
\* k, which is not a tombstone.
C16_IndexUnique ==
  \A k \in Keys :
    /\ Cardinality(bucketsOf(c, k)) <= 1
    /\ bucketsOf(c, k) # {} <=> Live(c, k)
    /\ \A i \in bucketsOf(c, k) :
         /\ getHash(c.hm, i) = hashReMap(U32(FNV1a64(k)))
         /\ getStoreIndex(c.hm, i) = c.st.log[lastOf(c, k)].off
         /\ c.st.log[lastOf(c, k)].val # <<>>

(***************************************************************************)
(* C17                                                                     *)
(***************************************************************************)
\* the call that returned r failed for lack of room in the store and left
\* no trace, not even after Close and Open
atomicIfFull(pm, r) ==
  r.err = "StoreFull"
  => /\ unchangedBy(pm, r)
     /\ \A k \in Keys :
          GetBy(Reopen(r.c), hf[k], k) = GetBy(Reopen(pm), hf[k], k)

\* C17: a Set, CAS or Del that fails because the store is full leaves every
\* Get, Checksum, Used and Deleted as they were, and Get after Close and
\* Open returns what it would have returned without the call.
C17_FullStoreAtomic ==
  \A k \in Keys :
    /\ \A value \in SetValues : atomicIfFull(c, Set(c, hf[k], k, value))
    /\ \A value \in CASValues : atomicIfFull(c, CAS(c, hf[k], k, value))
    /\ \A value \in DelValues : atomicIfFull(c, Del(c, hf[k], k, value))

(***************************************************************************)
(* C18                                                                     *)
(***************************************************************************)
\* C18: Deleted as Open computes it from the log is Deleted as it was before
\* Close.
C18_DeletedSurvivesReopen == Deleted(Reopen(c)) = Deleted(c)

(***************************************************************************)
(* C19                                                                     *)
(***************************************************************************)
\* the most recent record of k is the tombstone of an accepted Del
Removed(pm, k) == recordsOf(pm, k) # {} /\ ~Live(pm, k)

\* the CAS values that expect absence
AbsentCASValues ==
  {v \in CASValues :
     Len(v) >= 24 /\ SubSeq(v, 1, 8) = ZeroW(8) /\ SubSeq(v, 9, 16) = FNV1a64(<<>>)}

\* the call that returned r stored value for k
storedBy(r, k, value) ==
  /\ r.err = "nil"
  /\ GetBy(r.c, hf[k], k) = Found(value)
  /\ Live(r.c, k)

\* C19: after a Del has removed a key, a Set of a value of at least 8 bytes
\* is accepted whatever its timestamp, Get returns its value and the key is
\* live again; so is a CAS that expects absence.
C19_ReinsertAfterDel ==
  \A k \in Keys :
    (Room /\ Removed(c, k))
    => /\ \A value \in SetValues :
            Len(value) >= 8 => storedBy(Set(c, hf[k], k, value), k, value)
       /\ \A value \in AbsentCASValues :
            storedBy(CAS(c, hf[k], k, value), k, SubSeq(value, 17, Len(value)))

\* a key was set at timestamp 1, deleted, and set again at timestamp 0
C19_Witness ==
  \E k \in Keys :
    /\ Len(c.st.log) >= 3
    /\ \A i \in 1..3 : c.st.log[i].key = k
    /\ SubSeq(c.st.log[1].val, 1, 8) = ts(1)
    /\ c.st.log[2].val = <<>>
    /\ SubSeq(c.st.log[3].val, 1, 8) = ts(0)
    /\ Len(c.st.log) = 3 => GetBy(c, hf[k], k) = Found(c.st.log[3].val)

(***************************************************************************)
(* C20                                                                     *)
(***************************************************************************)
Reverse(q) == [i \in 1..Len(q) |-> q[Len(q) + 1 - i]]

\* the first n elements of q, all of them when n is 0 or q is shorter
firstCalls(q, n) == IF n = 0 \/ n >= Len(q) THEN q ELSE SubSeq(q, 1, n)

\* the callbacks: one that never returns false and those that return false
\* at their n-th call
StopAt == 0..(MaxRecords + 1)

\* C20: Iterate calls foreach in increasing order of offset, BackwardsIterate
\* calls it on the same records in the reverse order, and neither calls it
\* again once it has returned false.
C20_OrderAndEarlyStop ==
  LET all == iterateCalls(c, 0, 0)
  IN /\ \A i \in 1..Len(all), j \in 1..Len(all) : i < j => all[i] < all[j]
     /\ backwardsCalls(c, 0) = Reverse(all)
     /\ \A n \in StopAt :
          /\ iterateCalls(c, 0, n) = firstCalls(all, n)
          /\ backwardsCalls(c, n) = firstCalls(Reverse(all), n)

\* two keys are live and a record that is not handed out lies in the log: a
\* callback that returns false at once is called on the first live record by
\* Iterate and on the last one by BackwardsIterate
C20_Witness ==
  LET all == iterateCalls(c, 0, 0)
  IN /\ Len(all) = 2
     /\ Len(c.st.log) = 3
     /\ iterateCalls(c, 0, 1) = <<all[1]>>
     /\ backwardsCalls(c, 1) = <<all[2]>>
     /\ backwardsCalls(c, 0) = <<all[2], all[1]>>

====
